---- MODULE Spec2Model ----
(***************************************************************************)
(* Model of src/streamlit_app.py: the Streamlit script run (upload, logo,  *)
(* chart collection) and the "Gerar Relatorio em PDF" handler with         *)
(* save_plot, create_pdf_report, the existence check, the download offer   *)
(* and the finally block, over a shared file system.                       *)
(***************************************************************************)
EXTENDS Integers, Sequences, FiniteSets, TLC

\* ---------------------------------------------------------------- bounds
MaxCols == 2
MaxExternalDeletes == 1

\* ------------------------------------------------------------ the domain
Sessions == {"s1", "s2"}
MainSessions == {"s1"}
Times == {"t1", "t2"}

Columns ==
  { [name |-> "age", kind |-> "num"],
    [name |-> "score", kind |-> "num"],
    [name |-> "city", kind |-> "cat"] }

RECURSIVE SeqsNoRep(_, _)
SeqsNoRep(S, n) ==
  IF n = 0 THEN {<<>>}
  ELSE LET shorter == SeqsNoRep(S, n - 1)
       IN shorter \cup
          { Append(q, x) : <<q, x>> \in
              { qx \in shorter \X S :
                  \A i \in 1..Len(qx[1]) : qx[1][i] # qx[2] } }

Range(q) == { q[i] : i \in 1..Len(q) }

Datasets ==
  { d \in SeqsNoRep(Columns, MaxCols) :
      \A i, j \in 1..Len(d) : d[i].name = d[j].name => i = j }

NoDf == <<[name |-> "none", kind |-> "none"]>>

Logos == {"acme"}
NoLogo == "none"

\* ---------------------------------------------------------- file system
None == <<"none", 0>>
TmpPath(n) == <<"tmp", n>>
ReportName == <<"relatorio_analise.pdf", 0>>
abspath(name) == name

NoDoc == [logo |-> "none", time |-> "none", ncols |-> 0, header |-> <<>>,
          rows |-> <<>>, pages |-> 0, gallery |-> <<>>]
NoFig == [chart |-> "none", col |-> "none"]

Png(fig) == [type |-> "png", fig |-> fig, logo |-> "none", doc |-> NoDoc]
LogoBytes(l) == [type |-> "logo", fig |-> NoFig, logo |-> l, doc |-> NoDoc]
Pdf(doc) == [type |-> "pdf", fig |-> NoFig, logo |-> "none", doc |-> doc]
Empty == [type |-> "empty", fig |-> NoFig, logo |-> "none", doc |-> NoDoc]
NoBytes == [type |-> "none", fig |-> NoFig, logo |-> "none", doc |-> NoDoc]
Missing == [type |-> "missing", fig |-> NoFig, logo |-> "none", doc |-> NoDoc]

exists(files, p) == p \in DOMAIN files

VARIABLES
  fs, tmpCount, extDeletes,
  pc, df, logo_path, num_figs, cat_figs, num_image_paths, cat_image_paths,
  ui, download, escaped, created, composed, inputs, cleanups

vars == << fs, tmpCount, extDeletes,
           pc, df, logo_path, num_figs, cat_figs, num_image_paths,
           cat_image_paths, ui, download, escaped, created, composed,
           inputs, cleanups >>

sessVars == << pc, df, logo_path, num_figs, cat_figs, num_image_paths,
               cat_image_paths, ui, download, escaped, created, composed,
               inputs, cleanups >>

\* ------------------------------------------------------- pure functions

\* df.select_dtypes(include=np.number).columns.tolist()
numerical_cols(d) ==
  LET num == SelectSeq(d, LAMBDA c : c.kind = "num")
  IN [i \in 1..Len(num) |-> num[i].name]

\* df.select_dtypes(include=['object', 'category']).columns.tolist()
categorical_cols(d) ==
  LET cat == SelectSeq(d, LAMBDA c : c.kind = "cat")
  IN [i \in 1..Len(cat) |-> cat[i].name]

NumericStats == <<"count", "mean", "std", "min", "25%", "50%", "75%", "max">>
ObjectStats == <<"count", "unique", "top", "freq">>
TableHeaders == <<"Coluna", "Contagem", "Media", "Desvio Padrao", "Minimo",
                  "25%", "50%", "75%", "Maximo">>

describe_all(d) ==
  IF Len(d) = 0
  THEN [raised |-> TRUE, index |-> <<>>, stats |-> <<>>]
  ELSE [raised |-> FALSE, index |-> [i \in 1..Len(d) |-> d[i].name],
        stats |-> NumericStats]

\* pandas DataFrame.describe() with default include: a frame without columns
\* raises; the numeric columns are described, and when there is none every
\* column is described with the object statistics.
describe(d) ==
  IF Len(d) = 0
  THEN [raised |-> TRUE, index |-> <<>>, stats |-> <<>>]
  ELSE IF Len(numerical_cols(d)) > 0
  THEN [raised |-> FALSE, index |-> numerical_cols(d), stats |-> NumericStats]
  ELSE [raised |-> FALSE, index |-> [i \in 1..Len(d) |-> d[i].name],
        stats |-> ObjectStats]

\* desc_stats = df.describe().T.reset_index(); desc_stats.columns = [9 names]
\* (the assignment raises when the frame does not have 9 columns)
desc_stats(d) ==
  LET ds == describe(d)
  IN IF ds.raised \/ 1 + Len(ds.stats) # Len(TableHeaders)
     THEN [raised |-> TRUE, rows |-> <<>>]
     ELSE [raised |-> FALSE, rows |-> ds.index]

\* FPDF.image(path): the file must exist and hold image data
image_ok(files, p) == exists(files, p) /\ files[p].type \in {"png", "logo"}

\* what a read of the path finds
ImageAt(files, p) == IF exists(files, p) THEN files[p] ELSE Missing

embed_with_path(files, section, images) ==
  [i \in 1..Len(images) |->
     [section |-> section, image |-> files[images[i]].fig,
      path |-> images[i]]]

\* the image loop of one gallery section
embed(files, section, images) ==
  [i \in 1..Len(images) |-> [section |-> section, image |-> files[images[i]].fig]]

\* create_pdf_report up to pdf.output: the document, or raised
create_pdf_report(d, logo, num_images, cat_images, files, now) ==
  LET stats == desc_stats(d)
      logo_raises == logo # None /\ ~image_ok(files, logo)
      img_raises == \E p \in Range(num_images) \cup Range(cat_images) :
                       ~image_ok(files, p)
  IN IF logo_raises \/ stats.raised \/ img_raises
     THEN [raised |-> TRUE, doc |-> NoDoc]
     ELSE [raised |-> FALSE,
           doc |-> [logo |-> IF logo # None THEN files[logo].logo ELSE "none",
                    time |-> now,
                    ncols |-> Len(d),
                    header |-> TableHeaders,
                    rows |-> stats.rows,
                    pages |-> IF Len(num_images) > 0 \/ Len(cat_images) > 0
                              THEN 2 ELSE 1,
                    gallery |-> embed(files, "num", num_images)
                                \o embed(files, "cat", cat_images)]]

output_default(files, filename, doc) ==
  (<<"relatorio.pdf", 0>> :> Pdf(doc)) @@ files

\* pdf.output(filename): the file is created or overwritten
output(files, filename, doc) == (filename :> Pdf(doc)) @@ files

\* num_figs: per selected column the histogram, then the boxplot
NumFigs(selected) ==
  [i \in 1..(2 * Len(selected)) |->
     [chart |-> IF i % 2 = 1 THEN "hist" ELSE "box",
      col |-> selected[(i + 1) \div 2]]]

\* cat_figs: per selected column one bar chart
CatFigs(selected) ==
  [i \in 1..Len(selected) |-> [chart |-> "bar", col |-> selected[i]]]

\* the files a run of [save_plot(fig) for fig in figs] leaves behind when
\* n figures were reached and the last one failed or not
SavedFiles(figs, base, n, failed) ==
  [p \in { TmpPath(base + i) : i \in 1..n } |->
     IF failed /\ p[2] - base = n THEN Empty ELSE Png(figs[p[2] - base])]

SavedPaths_reversed(base, n) == [i \in 1..n |-> TmpPath(base + n + 1 - i)]

\* the list of names the comprehension returns
SavedPaths(base, n) == [i \in 1..n |-> TmpPath(base + i)]

\* ------------------------------------------------------------- the state
Init ==
  /\ fs = << >>
  /\ tmpCount = 0
  /\ extDeletes = 0
  /\ pc = [s \in Sessions |-> "idle"]
  /\ df = [s \in Sessions |-> NoDf]
  /\ logo_path = [s \in Sessions |-> None]
  /\ num_figs = [s \in Sessions |-> <<>>]
  /\ cat_figs = [s \in Sessions |-> <<>>]
  /\ num_image_paths = [s \in Sessions |-> <<>>]
  /\ cat_image_paths = [s \in Sessions |-> <<>>]
  /\ ui = [s \in Sessions |-> {}]
  /\ download = [s \in Sessions |-> NoBytes]
  /\ escaped = [s \in Sessions |-> "none"]
  /\ created = [s \in Sessions |-> {}]
  /\ composed = [s \in Sessions |-> NoDoc]
  /\ inputs = [s \in Sessions |-> <<>>]
  /\ cleanups = [s \in Sessions |-> 0]

EndPcs == {"end_homepage", "end_loadfail", "end_view", "end_refused",
           "end_generated"}

\* a session's script run starts on a user interaction; a later run of the
\* same session shares nothing with it but the file system, as a run of
\* another session does
CanStart(s) == pc[s] = "idle"

\* every script run starts from a fresh namespace and an empty page
FreshRun(s, end, d, msgs) ==
  /\ pc' = [pc EXCEPT ![s] = end]
  /\ df' = [df EXCEPT ![s] = d]
  /\ num_image_paths' = [num_image_paths EXCEPT ![s] = <<>>]
  /\ cat_image_paths' = [cat_image_paths EXCEPT ![s] = <<>>]
  /\ ui' = [ui EXCEPT ![s] = msgs]
  /\ download' = [download EXCEPT ![s] = NoBytes]
  /\ escaped' = [escaped EXCEPT ![s] = "none"]
  /\ created' = [created EXCEPT ![s] = {}]
  /\ composed' = [composed EXCEPT ![s] = NoDoc]
  /\ inputs' = [inputs EXCEPT ![s] = <<>>]
  /\ cleanups' = [cleanups EXCEPT ![s] = 0]
  /\ UNCHANGED extDeletes

\* lines 543-545: no uploaded file, the home page is shown and the run stops
RunHomepage(s) ==
  /\ CanStart(s)
  /\ FreshRun(s, "end_homepage", NoDf, {})
  /\ logo_path' = [logo_path EXCEPT ![s] = None]
  /\ num_figs' = [num_figs EXCEPT ![s] = <<>>]
  /\ cat_figs' = [cat_figs EXCEPT ![s] = <<>>]
  /\ UNCHANGED << fs, tmpCount >>

RunLoadFail_no_stop(s) ==
  /\ CanStart(s)
  /\ FreshRun(s, "end_loadfail", NoDf, {"load_error"})
  /\ \E logo \in Logos :
       /\ fs' = fs @@ (TmpPath(tmpCount + 1) :> LogoBytes(logo))
       /\ tmpCount' = tmpCount + 1
       /\ logo_path' = [logo_path EXCEPT ![s] = TmpPath(tmpCount + 1)]
  /\ num_figs' = [num_figs EXCEPT ![s] = <<>>]
  /\ cat_figs' = [cat_figs EXCEPT ![s] = <<>>]

\* lines 548-551: load_data returned None, the run stops
RunLoadFail(s) ==
  /\ CanStart(s)
  /\ FreshRun(s, "end_loadfail", NoDf, {"load_error"})
  /\ logo_path' = [logo_path EXCEPT ![s] = None]
  /\ num_figs' = [num_figs EXCEPT ![s] = <<>>]
  /\ cat_figs' = [cat_figs EXCEPT ![s] = <<>>]
  /\ UNCHANGED << fs, tmpCount >>

\* lines 553-657: the data set is loaded, the logo written to a temporary
\* file, the figures of the selected columns collected
ScriptBody(s, d, logo, sel_num, sel_cat) ==
  /\ IF logo # NoLogo
     THEN /\ fs' = fs @@ (TmpPath(tmpCount + 1) :> LogoBytes(logo))
          /\ tmpCount' = tmpCount + 1
          /\ logo_path' = [logo_path EXCEPT ![s] = TmpPath(tmpCount + 1)]
     ELSE /\ logo_path' = [logo_path EXCEPT ![s] = None]
          /\ UNCHANGED << fs, tmpCount >>
  /\ num_figs' = [num_figs EXCEPT ![s] = NumFigs(sel_num)]
  /\ cat_figs' = [cat_figs EXCEPT ![s] = CatFigs(sel_cat)]

Selections(cols) == SeqsNoRep(Range(cols), Len(cols))

\* the button was not pressed in this run
RunView(s, D) ==
  /\ CanStart(s)
  /\ \E d \in D, logo \in Logos \cup {NoLogo} :
       \E sel_num \in Selections(numerical_cols(d)),
          sel_cat \in Selections(categorical_cols(d)) :
         /\ ScriptBody(s, d, logo, sel_num, sel_cat)
         /\ FreshRun(s, "end_view", d, {})

\* lines 659-661: the button was pressed without any figure
RunRefused(s, D) ==
  /\ CanStart(s)
  /\ \E d \in D, logo \in Logos \cup {NoLogo} :
       /\ ScriptBody(s, d, logo, <<>>, <<>>)
       /\ FreshRun(s, "end_refused", d, {"warning"})

\* lines 659-664: the button was pressed with at least one figure
RunGenerate(s, D) ==
  /\ CanStart(s)
  /\ \E d \in D, logo \in Logos \cup {NoLogo} :
       \E sel_num \in Selections(numerical_cols(d)),
          sel_cat \in Selections(categorical_cols(d)) :
         /\ Len(sel_num) + Len(sel_cat) > 0
         /\ ScriptBody(s, d, logo, sel_num, sel_cat)
         /\ FreshRun(s, "save_num", d, {})

\* lines 696-697: the except clause reports and falls to the finally block
Excepted(s) ==
  /\ ui' = [ui EXCEPT ![s] = @ \cup {"error"}]
  /\ pc' = [pc EXCEPT ![s] = "finally"]

\* line 666 / 667: [save_plot(fig) for fig in figs] if figs else []; savefig
\* may raise at any figure, after NamedTemporaryFile created its file
SaveAll(s, figs, paths, next) ==
  \/ /\ fs' = fs @@ SavedFiles(figs, tmpCount, Len(figs), FALSE)
     /\ tmpCount' = tmpCount + Len(figs)
     /\ created' = [created EXCEPT
                      ![s] = @ \cup Range(SavedPaths(tmpCount, Len(figs)))]
     /\ paths' = [paths EXCEPT ![s] = SavedPaths(tmpCount, Len(figs))]
     /\ pc' = [pc EXCEPT ![s] = next]
     /\ UNCHANGED ui
  \/ \E n \in 1..Len(figs) :
       /\ fs' = fs @@ SavedFiles(figs, tmpCount, n, TRUE)
       /\ tmpCount' = tmpCount + n
       /\ created' = [created EXCEPT
                        ![s] = @ \cup Range(SavedPaths(tmpCount, n))]
       /\ UNCHANGED paths
       /\ Excepted(s)

SaveNum(s) ==
  /\ pc[s] = "save_num"
  /\ SaveAll(s, num_figs[s], num_image_paths, "save_cat")
  /\ UNCHANGED << extDeletes, df, logo_path, num_figs, cat_figs,
                  cat_image_paths, download, escaped, composed, inputs,
                  cleanups >>

SaveCat(s) ==
  /\ pc[s] = "save_cat"
  /\ SaveAll(s, cat_figs[s], cat_image_paths, "compose")
  /\ UNCHANGED << extDeletes, df, logo_path, num_figs, cat_figs,
                  num_image_paths, download, escaped, composed, inputs,
                  cleanups >>

\* what the document may depend on: the data set, the bytes of the logo and
\* of the images, and the time
ReportInputs(s, now) ==
  [df |-> df[s],
   logo |-> IF logo_path[s] = None THEN NoBytes ELSE ImageAt(fs, logo_path[s]),
   num_images |-> [i \in 1..Len(num_image_paths[s]) |->
                     ImageAt(fs, num_image_paths[s][i])],
   cat_images |-> [i \in 1..Len(cat_image_paths[s]) |->
                     ImageAt(fs, cat_image_paths[s][i])],
   time |-> now]

\* lines 670-679: create_pdf_report(..., filename=report_path) writes the
\* document to the fixed path, or raises
Compose(s) ==
  /\ pc[s] = "compose"
  /\ \E now \in Times :
       LET report_path == abspath(ReportName)
           r == create_pdf_report(df[s], logo_path[s], num_image_paths[s],
                                  cat_image_paths[s], fs, now)
       IN /\ inputs' = [inputs EXCEPT ![s] = <<ReportInputs(s, now)>>]
          /\ IF r.raised
             THEN /\ Excepted(s)
                  /\ UNCHANGED << fs, composed >>
             ELSE /\ fs' = output(fs, report_path, r.doc)
                  /\ composed' = [composed EXCEPT ![s] = r.doc]
                  /\ pc' = [pc EXCEPT ![s] = "exists"]
                  /\ UNCHANGED ui
  /\ UNCHANGED << tmpCount, extDeletes, df, logo_path, num_figs,
                  cat_figs, num_image_paths, cat_image_paths, download,
                  escaped, created, cleanups >>

\* lines 682-683, 693-694: os.path.exists(report_path)
CheckExists(s) ==
  /\ pc[s] = "exists"
  /\ IF exists(fs, abspath(ReportName))
     THEN /\ ui' = [ui EXCEPT ![s] = @ \cup {"success"}]
          /\ pc' = [pc EXCEPT ![s] = "open"]
     ELSE /\ ui' = [ui EXCEPT ![s] = @ \cup {"failed"}]
          /\ pc' = [pc EXCEPT ![s] = "finally"]
  /\ UNCHANGED << fs, tmpCount, extDeletes, df, logo_path, num_figs,
                  cat_figs, num_image_paths, cat_image_paths, download,
                  escaped, created, composed, inputs, cleanups >>

\* lines 686-692: open(report_path, "rb") and st.download_button
OpenDownload(s) ==
  /\ pc[s] = "open"
  /\ IF exists(fs, abspath(ReportName))
     THEN /\ download' = [download EXCEPT ![s] = fs[abspath(ReportName)]]
          /\ pc' = [pc EXCEPT ![s] = "finally"]
          /\ UNCHANGED ui
     ELSE /\ Excepted(s)
          /\ UNCHANGED download
  /\ UNCHANGED << fs, tmpCount, extDeletes, df, logo_path, num_figs,
                  cat_figs, num_image_paths, cat_image_paths, escaped,
                  created, composed, inputs, cleanups >>

\* lines 698-700: the name cleanup_temp_files is bound nowhere in the module,
\* so evaluating the call raises NameError before anything is released; the
\* exception leaves the finally block and ends the script run
Finally(s) ==
  /\ pc[s] = "finally"
  /\ escaped' = [escaped EXCEPT ![s] = "NameError"]
  /\ pc' = [pc EXCEPT ![s] = "end_generated"]
  /\ UNCHANGED << fs, tmpCount, extDeletes, df, logo_path, num_figs,
                  cat_figs, num_image_paths, cat_image_paths, ui, download,
                  created, composed, inputs, cleanups >>

InProgress == {"save_num", "save_cat", "compose", "exists", "open", "finally"}

\* the paths a request reads or hands on after they were written
UsedPaths(s) ==
  {logo_path[s], abspath(ReportName)} \cup created[s]

\* the environment: some other process removes a file a running request uses
ExternalDelete ==
  /\ extDeletes < MaxExternalDeletes
  /\ \E s \in Sessions :
       /\ pc[s] \in InProgress
       /\ \E p \in DOMAIN fs \cap UsedPaths(s) :
            fs' = [q \in DOMAIN fs \ {p} |-> fs[q]]
  /\ extDeletes' = extDeletes + 1
  /\ UNCHANGED << tmpCount, sessVars >>

\* the steps of the handler of the button, lines 664-700
Handler(s) ==
  \/ SaveNum(s)
  \/ SaveCat(s)
  \/ Compose(s)
  \/ CheckExists(s)
  \/ OpenDownload(s)
  \/ Finally(s)

\* one session
Next ==
  \/ \E s \in MainSessions :
       \/ RunHomepage(s)
       \/ RunLoadFail(s)
       \/ RunView(s, Datasets)
       \/ RunRefused(s, Datasets)
       \/ RunGenerate(s, Datasets)
       \/ Handler(s)
  \/ ExternalDelete

Spec == Init /\ [][Next]_vars

\* overlapping sessions of the same server process, sharing its directory
SessionDatasets ==
  { <<[name |-> "age", kind |-> "num"]>>,
    <<[name |-> "score", kind |-> "num"], [name |-> "city", kind |-> "cat"]>> }

NextSessions ==
  \E s \in Sessions : RunGenerate(s, SessionDatasets) \/ Handler(s)

SpecSessions == Init /\ [][NextSessions]_vars

\* ----------------------------------------------------------- properties

Ended(s) == pc[s] = "end_generated"

\* C1: after a report-generation request has ended, with or without an
\* exception, none of the chart files save_plot created in it exists.
C1_NoTempFileRemains ==
  \A s \in Sessions :
    Ended(s) => \A p \in created[s] : ~exists(fs, p)

\* C2: in every request that started generating, the release-all step has
\* run to completion exactly once when the request ends.
C2_CleanupExactlyOnce ==
  \A s \in Sessions : Ended(s) => cleanups[s] = 1

Composing(s) == inputs[s] # <<>>

MissingAsset(s) ==
  LET i == inputs[s][1]
  IN \/ i.logo.type = "missing"
     \/ \E k \in 1..Len(i.num_images) : i.num_images[k].type = "missing"
     \/ \E k \in 1..Len(i.cat_images) : i.cat_images[k].type = "missing"

Present(images) == SelectSeq(images, LAMBDA b : b.type # "missing")

\* C3: when the logo path or an image path does not exist at composition
\* time, create_pdf_report still produces the document, with every other
\* image in it, and reports no error.
C3_MissingAssetSkipped ==
  \A s \in Sessions :
    (Composing(s) /\ MissingAsset(s) /\ ~desc_stats(df[s]).raised)
      => /\ composed[s] # NoDoc
         /\ Len(composed[s].gallery)
              = Len(Present(inputs[s][1].num_images))
                + Len(Present(inputs[s][1].cat_images))
         /\ pc[s] \in {"exists", "open"} => "error" \notin ui[s]

\* the request ended after chart saving or composition raised
RaisedBeforeReport(s) == Ended(s) /\ composed[s] = NoDoc

\* C4: when chart saving or composition raised, the request ends with an
\* error shown, no download offered and no exception leaving the handler.
C4_FailureContained ==
  \A s \in Sessions :
    RaisedBeforeReport(s)
      => /\ "error" \in ui[s]
         /\ download[s] = NoBytes
         /\ escaped[s] = "none"

\* the button was pressed on a data set without numeric columns and without
\* any figure
DegenerateRequest(s) ==
  /\ pc[s] \in {"end_refused", "end_generated"}
  /\ Len(numerical_cols(df[s])) = 0
  /\ num_figs[s] = <<>>
  /\ cat_figs[s] = <<>>

\* C5: for a data set without numeric columns and without images the
\* request is not refused and yields a one-page document whose table has
\* the 9-cell header and no data row.
C5_DegenerateReport ==
  \A s \in Sessions :
    DegenerateRequest(s)
      => /\ "warning" \notin ui[s]
         /\ composed[s] # NoDoc
         /\ Len(composed[s].header) = 9
         /\ composed[s].rows = <<>>
         /\ composed[s].pages = 1

\* C6: the bytes a session is offered for download are the document
\* composed in that session's own request.
C6_OwnBytesOffered ==
  \A s \in Sessions :
    download[s] # NoBytes => download[s] = Pdf(composed[s])

Section(name, figs) ==
  [i \in 1..Len(figs) |-> [section |-> name, image |-> figs[i]]]

\* C8: the gallery of a composed document is the numeric figures followed
\* by the categorical figures, each group in the order of selection, the
\* histogram of a numeric column right before its boxplot, nothing dropped,
\* duplicated or reordered.
C8_GalleryOrder ==
  \A s \in Sessions :
    composed[s] # NoDoc
      => /\ composed[s].gallery
              = Section("num", num_figs[s]) \o Section("cat", cat_figs[s])
         /\ \A i \in 1..Len(num_figs[s]) :
              i % 2 = 1 =>
                /\ num_figs[s][i].chart = "hist"
                /\ num_figs[s][i + 1].chart = "box"
                /\ num_figs[s][i + 1].col = num_figs[s][i].col

C8_MixedGallery ==
  \E s \in Sessions :
    /\ composed[s] # NoDoc
    /\ Len(num_figs[s]) >= 2
    /\ Len(cat_figs[s]) >= 1
    /\ Len(composed[s].gallery) = Len(num_figs[s]) + Len(cat_figs[s])

\* C9: two compositions with the same data set, logo bytes, image bytes
\* and timestamp produce the same document (or both none), whatever the
\* session and the names of the temporary files.
C9_SameInputsSameDocument ==
  \A s, t \in Sessions :
    (Composing(s) /\ Composing(t) /\ inputs[s] = inputs[t])
      => composed[s] = composed[t]

C9_TwoEqualCompositions ==
  \E s, t \in Sessions :
    /\ s # t
    /\ Composing(s) /\ Composing(t)
    /\ inputs[s] = inputs[t]
    /\ composed[s] # NoDoc
    /\ num_image_paths[s] # num_image_paths[t]

ColumnAt(d, name) == CHOOSE i \in 1..Len(d) : d[i].name = name

NoRequestInProgress == \A s \in Sessions : pc[s] \notin InProgress

\* C11: outside a report generation in progress no temporary copy of an
\* uploaded logo is on storage, whatever script runs have taken place.
C11_NoLogoCopyOutsideGeneration ==
  NoRequestInProgress => \A p \in DOMAIN fs : fs[p].type # "logo"

\* C12: a script run in which loading the file failed shows an error and
\* stops there: it writes no file, keeps no logo path, collects no figure,
\* never calls create_pdf_report, and takes no further step.
C12_LoadFailureStopsRun ==
  [][ \A s \in Sessions :
        /\ (pc[s] # "end_loadfail" /\ pc'[s] = "end_loadfail")
             => /\ "load_error" \in ui'[s]
                /\ fs' = fs
                /\ tmpCount' = tmpCount
                /\ df'[s] = NoDf
                /\ logo_path'[s] = None
                /\ num_figs'[s] = <<>> /\ cat_figs'[s] = <<>>
                /\ created'[s] = {}
                /\ inputs'[s] = <<>>
                /\ composed'[s] = NoDoc
                /\ download'[s] = NoBytes
        /\ pc[s] = "end_loadfail"
             => /\ pc'[s] = "end_loadfail"
                /\ inputs'[s] = <<>>
                /\ composed'[s] = NoDoc
                /\ logo_path'[s] = None ]_vars

C12_LoadFailed ==
  \E s \in Sessions :
    /\ pc[s] = "end_loadfail"
    /\ "load_error" \in ui[s]
    /\ inputs[s] = <<>>
    /\ fs = << >>

\* the arguments of the call in the finally block
CleanupArgs(s) ==
  {logo_path[s]} \cup Range(num_image_paths[s]) \cup Range(cat_image_paths[s])

\* C13: when the finally block is reached, the paths handed to the cleanup
\* include every file save_plot created in the request, also when a list
\* of figures was saved only in part.
C13_CleanupGetsEveryCreatedFile ==
  \A s \in Sessions :
    pc[s] = "finally" => created[s] \subseteq CleanupArgs(s)

====
